---- MODULE Spec2Model ----
(***************************************************************************)
(* The queue-to-socket relay of index.js (startSQSPolling) together with   *)
(* the queue client of sqsConfig.js (getSQSClient, receiveSQSMessages,     *)
(* deleteSQSMessage) and the queue service they talk to.                   *)
(*                                                                         *)
(* The poller is one async function; its position is pc.  Every action of  *)
(* the poller is the code between two suspension points of that function,  *)
(* cut once more at the head of the for loop and at the head of the while  *)
(* loop so that the calls of one iteration can be observed before the next *)
(* iteration starts.                                                       *)
(***************************************************************************)
EXTENDS Naturals, Sequences, FiniteSets, TLC

\* ------------------------------------------------------------------ bounds
\* Number of message slots of the queue service.
NumMsgs == 2

\* -------------------------------------------------------- program constants
\* receiveSQSMessages(5): index.js line 125
maxMessages == 5
\* setTimeout(resolve, 5000): index.js line 143
BackoffMs == 5000

MsgIds == 1..NumMsgs

\* The messages of the handlers that are in the queue at a time.
MaxQueued == 1

\* sqsConfig.js: requiredEnvVars
requiredEnvVars ==
    {"AWS_REGION", "AWS_ACCESS_KEY_ID", "AWS_SECRET_ACCESS_KEY", "AWS_SQS_QUEUE_URL"}

\* ------------------------------------------------------------ JSON values
\* Session ids socket.io gives to connections (socket.id).
SocketIds == {"s1", "s2"}

\* The keys of a message object and the values met under each.
TextValues == {"hi", "hello"}
TopicValues == {"t1", "general"}
TimeValues == {"T0", "T1"}
KeyOrder == <<"text", "senderId", "topic", "timestamp">>
ValuesOf(key) ==
    CASE key = "text" -> TextValues
      [] key = "senderId" -> SocketIds
      [] key = "topic" -> TopicValues
      [] key = "timestamp" -> TimeValues

\* A JavaScript value: an object is its set of <<key, value>> properties.
JSObject(props) == [type |-> "object", props |-> props]
JSNull == [type |-> "null", props |-> {}]
JSUndefined == [type |-> "undefined", props |-> {}]

Has(props, key) == \E p \in props : p[1] = key
Get(props, key) == (CHOOSE p \in props : p[1] = key)[2]

\* The property sets of the message objects: every key at most once.
JsonObjects ==
    {props \in SUBSET UNION {{<<KeyOrder[k], v>> : v \in ValuesOf(KeyOrder[k])} :
                                 k \in DOMAIN KeyOrder} :
        \A p, q \in props : p[1] = q[1] => p = q}

\* JSON.stringify of an object: its members, in key order, between braces.
RECURSIVE Members(_, _)
Members(props, k) ==
    IF k > Len(KeyOrder) THEN <<>>
    ELSE IF Has(props, KeyOrder[k])
      THEN <<"\"" \o KeyOrder[k] \o "\":\"" \o Get(props, KeyOrder[k]) \o "\"">>
               \o Members(props, k + 1)
      ELSE Members(props, k + 1)

RECURSIVE Joined(_)
Joined(parts) ==
    IF parts = <<>> THEN ""
    ELSE IF Len(parts) = 1 THEN parts[1]
    ELSE parts[1] \o "," \o Joined(Tail(parts))

JSON_stringify(props) == "{" \o Joined(Members(props, 1)) \o "}"

\* Message bodies a producer outside this server may have written to the queue.
BodyEnvelope == "{\"text\":\"hi\",\"topic\":\"t1\",\"timestamp\":\"T0\"}"
BodyNoTopic == "{\"text\":\"hi\"}"
BodyNull == "null"
BodyNotJson == "not-json"
Bodies == {BodyEnvelope, BodyNoTopic, BodyNull, BodyNotJson}

\* The JSON texts and what each parses to.
ParseTable ==
    [t \in {JSON_stringify(o) : o \in JsonObjects} \cup {BodyNull} |->
        IF t = BodyNull THEN JSNull
        ELSE JSObject(CHOOSE o \in JsonObjects : JSON_stringify(o) = t)]

\* JSON.parse(text): the parsed value, or a SyntaxError.
JSON_parse(text) ==
    IF text \in DOMAIN ParseTable
      THEN [ok |-> TRUE, value |-> ParseTable[text]]
      ELSE [ok |-> FALSE, value |-> JSNull]

\* Reading a property of a value with `value.key`: a TypeError on null.
PropertyReadThrows(value) == value.type = "null"

VARIABLES
    env,        \* process.env: the required variables that are set
    sqsClient,  \* sqsConfig.js `let sqsClient`: "null" or the client built
    pc,         \* position of startSQSPolling
    messages,   \* `const messages` of the current iteration
    idx,        \* position of the for loop in messages (1-based)
    calls,      \* what the poller did since it last called receiveSQSMessages
    qstate,     \* queue service: state of every message slot
    qbody,      \* queue service: body of every message slot
    connected,  \* socket.io: the ids of the sockets that are connected
    req         \* the request or socket event in hand, or the last one handled

vars == <<env, sqsClient, pc, messages, idx, calls, qstate, qbody, connected, req>>

\* ------------------------------------------------------------ queue client
missingVars == requiredEnvVars \ env

\* getSQSClient throws when the client is unset and a variable is missing.
getSQSClientThrows == sqsClient = "null" /\ missingVars # {}

\* new SQSClient({region, credentials}): the client a construction makes.
NewSQSClient == "client"

\* A client built at every call, never the one at hand.
getSQSClientRebuilds == IF sqsClient = NewSQSClient THEN "client2" ELSE NewSQSClient

\* The value of sqsClient after a getSQSClient() that did not throw.
getSQSClient == IF sqsClient # "null" THEN sqsClient ELSE NewSQSClient

\* The receipt handle the queue service hands out with message m.
ReceiptHandleOf(m) == <<"rh", m>>

Message(m) == [MessageId |-> m, Body |-> qbody[m], ReceiptHandle |-> ReceiptHandleOf(m)]

Min(a, b) == IF a < b THEN a ELSE b

\* The batches a ReceiveMessage may answer with: up to MaxNumberOfMessages
\* distinct visible messages, in any order; none when response.Messages is unset.
Batches(visible) ==
    {s \in UNION {[1..n -> visible] : n \in 0..Min(maxMessages, Cardinality(visible))} :
        \A i, j \in DOMAIN s : i # j => s[i] # s[j]}

\* ----------------------------------------------------------------- poller
\* One entry of calls: what was done (op), for which message of the batch (i),
\* and the argument: the value emitted and the sockets it went to, the receipt
\* handle deleted, the milliseconds slept.
Call(op, i, body, handle, ms) ==
    [op |-> op, i |-> i, body |-> body, handle |-> handle, ms |-> ms, to |-> {}]

NoHandle == <<"rh", 0>>

Did(op, i) == Call(op, i, JSUndefined, NoHandle, 0)

\* The outer catch without its setTimeout: log and retry at once.
OuterCatchNoSleep(log) ==
    /\ calls' = Append(log, Did("error", 0))
    /\ pc' = "loop"

\* The outer catch throwing the error on: startSQSPolling rejects.
OuterCatchRethrows(log) ==
    /\ calls' = Append(log, Did("error", 0))
    /\ pc' = "crashed"

\* The outer catch of startSQSPolling: log, then sleep 5 seconds.
OuterCatch(log) ==
    /\ calls' = log \o <<Did("error", 0),
                         Call("sleep", 0, JSUndefined, NoHandle, BackoffMs)>>
    /\ pc' = "sleeping"

\* The inner catch deleting the message it could not handle.
InnerCatchDeletes(log) ==
    /\ calls' = log \o <<Did("error", idx),
                         Call("delete", idx, JSUndefined, messages[idx].ReceiptHandle, 0)>>
    /\ idx' = idx
    /\ pc' = "await_delete"

\* The inner catch backing off like the outer one: the batch is left.
InnerCatchBackoff(log) ==
    /\ calls' = log \o <<Did("error", idx),
                         Call("sleep", 0, JSUndefined, NoHandle, BackoffMs)>>
    /\ idx' = idx
    /\ pc' = "sleeping"

\* The inner catch of startSQSPolling: log, then go on with the next message.
InnerCatch(log) ==
    /\ calls' = Append(log, Did("error", idx))
    /\ idx' = idx + 1
    /\ pc' = "for"

\* No request in hand.
IdleReq ==
    [kind |-> "none", by |-> "none", state |-> "idle",
     input |-> [given |-> FALSE, props |-> {}],
     sendCalls |-> <<>>, commands |-> <<>>, status |-> 0, errors |-> 0]

Init ==
    /\ env \in SUBSET requiredEnvVars
    /\ sqsClient = "null"
    /\ pc = "init"
    /\ messages = <<>>
    /\ idx = 1
    /\ calls = <<>>
    /\ qstate = [m \in MsgIds |-> "absent"]
    /\ qbody = [m \in MsgIds |-> BodyNotJson]
    /\ connected = {}
    /\ req = IdleReq

\* server.listen callback: startSQSPolling()
StartSQSPolling ==
    /\ pc = "init"
    /\ pc' = "loop"
    /\ UNCHANGED <<env, sqsClient, messages, idx, calls, qstate, qbody, connected, req>>

\* while (true) { try { ... await receiveSQSMessages(5)
PollerReceive ==
    /\ pc = "loop"
    /\ messages' = <<>>
    /\ idx' = 1
    /\ IF getSQSClientThrows
         THEN /\ OuterCatch(<<Did("receive", 0), Did("receive_failed", 0)>>)
              /\ UNCHANGED sqsClient
         ELSE /\ sqsClient' = getSQSClient
              /\ calls' = <<Did("receive", 0)>>
              /\ pc' = "await_receive"
    /\ UNCHANGED <<env, qstate, qbody, connected, req>>

\* client.send(ReceiveMessageCommand) resolves: return response.Messages || []
ReceiveReturns ==
    /\ pc = "await_receive"
    /\ \E batch \in Batches({m \in MsgIds : qstate[m] = "visible"}) :
         /\ messages' = [i \in DOMAIN batch |-> Message(batch[i])]
         /\ qstate' = [m \in MsgIds |->
                         IF \E i \in DOMAIN batch : batch[i] = m
                           THEN "inflight" ELSE qstate[m]]
         /\ calls' = Append(calls, Did("received", Len(batch)))
    /\ idx' = 1
    /\ pc' = "for"
    /\ UNCHANGED <<env, sqsClient, qbody, connected, req>>

\* client.send(ReceiveMessageCommand) rejects
ReceiveFails ==
    /\ pc = "await_receive"
    /\ OuterCatch(Append(calls, Did("receive_failed", 0)))
    /\ UNCHANGED <<env, sqsClient, messages, idx, qstate, qbody, connected, req>>

\* the setTimeout of the outer catch fires
TimerFires ==
    /\ pc = "sleeping"
    /\ calls' = Append(calls, Did("woke", 0))
    /\ pc' = "loop"
    /\ UNCHANGED <<env, sqsClient, messages, idx, qstate, qbody, connected, req>>

\* An io.emit of the envelope stamped anew at receive time.
EmitRestamped(log, value) ==
    Append(log, [Call("emit", idx,
                      JSObject({p \in value.props : p[1] # "timestamp"}
                                   \cup {<<"timestamp", "T1">>}),
                      NoHandle, 0) EXCEPT !.to = connected])

\* The for loop body without its io.emit.
EmitSkipped(log, value) == log

\* An emit to a room that no socket has joined.
EmitToEmptyRoom(log, value) == Append(log, Call("emit", idx, value, NoHandle, 0))

\* io.emit('message', body): the call is made; socket.io may throw out of it.
\* It goes to the sockets connected at this moment.
Emit(log, value) ==
    Append(log, [Call("emit", idx, value, NoHandle, 0) EXCEPT !.to = connected])

\* deleteSQSMessage called with the handle of the first message of the batch.
CallDeleteFirstHandle(log, handle) ==
    /\ sqsClient' = getSQSClient
    /\ calls' = Append(log, Call("delete", idx, JSUndefined, messages[1].ReceiptHandle, 0))
    /\ pc' = "await_delete"
    /\ UNCHANGED idx

\* deleteSQSMessage called without await: the loop goes on while the
\* DeleteMessageCommand is on its way.
CallDeleteNotAwaited(log, handle) ==
    /\ sqsClient' = getSQSClient
    /\ calls' = Append(log, Call("delete", idx, JSUndefined, handle, 0))
    /\ idx' = idx + 1
    /\ pc' = "for"

\* await deleteSQSMessage(message.ReceiptHandle): getSQSClient(), then the
\* DeleteMessageCommand is sent and the poller waits for its answer.
CallDelete(log, handle) ==
    IF getSQSClientThrows
      THEN /\ InnerCatch(log)
           /\ UNCHANGED sqsClient
      ELSE /\ sqsClient' = getSQSClient
           /\ calls' = Append(log, Call("delete", idx, JSUndefined, handle, 0))
           /\ pc' = "await_delete"
           /\ UNCHANGED idx

\* A for loop walking the batch from its last message to its first.
ForOfReversed(seq, i) == seq[Len(seq) + 1 - i]

\* for (const message of messages): the message of the i-th round.
ForOf(seq, i) == seq[i]

\* Body of the for loop up to its await: JSON.parse, console.log, io.emit,
\* deleteSQSMessage.
HandleMessage ==
    /\ pc = "for"
    /\ idx <= Len(messages)
    /\ LET message == ForOf(messages, idx)
           parsed == JSON_parse(message.Body)
           body == parsed.value
       IN  IF ~parsed.ok \/ PropertyReadThrows(body)
             THEN /\ InnerCatch(calls)
                  /\ UNCHANGED sqsClient
             ELSE \E emitThrows \in BOOLEAN :
                    IF emitThrows
                      THEN /\ InnerCatch(Append(Emit(calls, body),
                                                Did("emit_failed", idx)))
                           /\ UNCHANGED sqsClient
                      ELSE CallDelete(Emit(calls, body), message.ReceiptHandle)
    /\ UNCHANGED <<env, messages, qstate, qbody, connected, req>>

\* client.send(DeleteMessageCommand) resolves: the queue has removed the message
DeleteReturns ==
    /\ pc = "await_delete"
    /\ LET handle == calls[Len(calls)].handle
       IN  qstate' = [m \in MsgIds |->
                        IF ReceiptHandleOf(m) = handle THEN "absent" ELSE qstate[m]]
    /\ calls' = Append(calls, Did("deleted", idx))
    /\ idx' = idx + 1
    /\ pc' = "for"
    /\ UNCHANGED <<env, sqsClient, messages, qbody, connected, req>>

\* A rejected delete caught by the outer catch: the rest of the batch is dropped.
DeleteFailsAbortsBatch ==
    /\ pc = "await_delete"
    /\ OuterCatch(Append(calls, Did("delete_failed", idx)))
    /\ UNCHANGED <<env, sqsClient, messages, idx, qstate, qbody, connected, req>>

\* client.send(DeleteMessageCommand) rejects: the message stays in the queue
DeleteFails ==
    /\ pc = "await_delete"
    /\ InnerCatch(Append(calls, Did("delete_failed", idx)))
    /\ UNCHANGED <<env, sqsClient, messages, qstate, qbody, connected, req>>

\* The loop sleeping after a receive that returned nothing.
BatchDoneIdleSleep ==
    /\ pc = "for"
    /\ idx > Len(messages)
    /\ IF Len(messages) = 0
         THEN /\ calls' = Append(calls, Call("sleep", 0, JSUndefined, NoHandle, BackoffMs))
              /\ pc' = "sleeping"
         ELSE /\ pc' = "loop"
              /\ UNCHANGED calls
    /\ UNCHANGED <<env, sqsClient, messages, idx, qstate, qbody, connected, req>>

\* the for loop is exhausted: back to the head of while (true)
BatchDone ==
    /\ pc = "for"
    /\ idx > Len(messages)
    /\ pc' = "loop"
    /\ UNCHANGED <<env, sqsClient, messages, idx, calls, qstate, qbody, connected, req>>

\* ---------------------------------------------------------- queue service
\* A producer's SendMessage reaches the queue.
QueueSend ==
    \E m \in MsgIds, b \in Bodies :
        /\ qstate[m] = "absent"
        /\ qstate' = [qstate EXCEPT ![m] = "visible"]
        /\ qbody' = [qbody EXCEPT ![m] = b]
        /\ UNCHANGED <<env, sqsClient, pc, messages, idx, calls, connected, req>>

\* The visibility timeout of a received, undeleted message runs out.
VisibilityTimeoutOf(m) ==
    /\ qstate[m] = "inflight"
    /\ qstate' = [qstate EXCEPT ![m] = "visible"]
    /\ UNCHANGED <<env, sqsClient, pc, messages, idx, calls, qbody, connected, req>>

VisibilityTimeout == \E m \in MsgIds : VisibilityTimeoutOf(m)

\* ------------------------------------------------------- sendSQSMessage
\* The value of a parameter or of a property that is not there.
Undefined == "<undefined>"

\* The clock readings new Date().toISOString() gives to the handlers.
Now == {"T1"}

\* The value of a property of an object, as destructuring reads it.
Prop(props, key) == IF Has(props, key) THEN Get(props, key) ELSE Undefined

\* topic = 'general': the default parameter applies to undefined only.
TopicParam(topic) == IF topic = Undefined THEN "general" ELSE topic

\* The spread written last: {topic, timestamp, ...data}.
SendBodyPayloadWins(data, topic, now) ==
    JSON_stringify({p \in {<<"topic", topic>>, <<"timestamp", now>>} :
                        ~Has(data, p[1])} \cup data)

\* JSON.stringify({...data, topic, timestamp}): the later keys replace the
\* keys of the same name in data, and undefined properties are left out.
SendBody(data, topic, now) ==
    JSON_stringify({p \in data : p[1] \notin {"topic", "timestamp"}}
                       \cup {p \in {<<"topic", topic>>} : topic # Undefined}
                       \cup {<<"timestamp", now>>})

\* new SendMessageCommand({QueueUrl, MessageBody, MessageAttributes.Topic})
SendMessageCommand(data, topic, now) ==
    [MessageBody |-> SendBody(data, TopicParam(topic), now),
     Topic |-> TopicParam(topic)]

\* The arguments of one call of sendSQSMessage, and the clock at the call.
SendCall(data, topic, now) == [data |-> data, topic |-> topic, now |-> now]

\* A request that has just arrived.
NewReq(kind, by, input) ==
    [IdleReq EXCEPT !.kind = kind, !.by = by, !.state = "done", !.input = input]

\* sendSQSMessage up to its await: the call is made, getSQSClient throws or
\* the command is built and client.send is started.
SendStarted(r, data, topic, now) ==
    [r EXCEPT !.sendCalls = Append(@, SendCall(data, topic, now)),
              !.commands = Append(@, SendMessageCommand(data, topic, now)),
              !.state = "sending"]

SendThrew(r, data, topic, now) ==
    [r EXCEPT !.sendCalls = Append(@, SendCall(data, topic, now))]

\* ------------------------------------------------------ the event loop
\* A busy wait in place of the timer.
PollerRunningBusySleep == pc \in {"loop", "for", "sleeping"}

\* The poller is in the middle of a synchronous stretch of its code.
PollerRunning == pc \in {"loop", "for"}

\* The server listens (the poller is started from the listen callback) and
\* the event loop is free to run a handler.
HandlersCanRun == pc # "init" /\ ~PollerRunning

\* --------------------------------------------------------- socket.io
Connect(c) ==
    /\ HandlersCanRun
    /\ c \notin connected
    /\ connected' = connected \cup {c}
    /\ UNCHANGED <<env, sqsClient, pc, messages, idx, calls, qstate, qbody, req>>

Disconnect(c) ==
    /\ HandlersCanRun
    /\ c \in connected
    /\ connected' = connected \ {c}
    /\ UNCHANGED <<env, sqsClient, pc, messages, idx, calls, qstate, qbody, req>>

\* The payloads of the 'send-message' events: none, and {text, topic}.
SocketInputs ==
    {[given |-> FALSE, props |-> {}],
     [given |-> TRUE, props |-> {<<"text", "hello">>, <<"topic", "t1">>}]}

\* Payloads with more than {text, topic}: a senderId and a timestamp of the
\* client's choice.
ForgedSocketInputs ==
    {[given |-> TRUE, props |-> {<<"text", "hello">>, <<"topic", "t1">>,
                                 <<"senderId", "s2">>, <<"timestamp", "T0">>}]}

\* { senderId: socket.id, ...data }: the payload spread over the id.
SocketPayloadSpread(c, input) ==
    {p \in {<<"senderId", c>>} : ~Has(input.props, "senderId")} \cup input.props

\* A payload the client fills in.
SocketPayloadFromClient(c, input) ==
    {p \in input.props : p[1] \in {"text", "senderId"}}

\* { text, senderId: socket.id }
SocketPayload(c, input) ==
    {p \in input.props : p[1] = "text"} \cup {<<"senderId", c>>}

\* A catch that closes the socket.
SocketCatchDisconnects(r) ==
    /\ req' = [r EXCEPT !.errors = @ + 1, !.state = "done"]
    /\ connected' = connected \ {r.by}

\* catch (error) { console.error(...) } of the 'send-message' handler
SocketCatch(r) ==
    /\ req' = [r EXCEPT !.errors = @ + 1, !.state = "done"]
    /\ connected' = connected

\* socket.on('send-message', async (data) => ...) up to its await, for an
\* event with one of the payloads of inputs
SocketSendMessageOf(c, inputs) ==
    /\ HandlersCanRun
    /\ c \in connected
    /\ req.state # "sending"
    /\ \E input \in inputs, now \in Now :
         LET r == NewReq("socket", c, input)
             data == SocketPayload(c, input)
             topic == Prop(input.props, "topic")
         IN  IF ~input.given
             THEN /\ SocketCatch(r)
                  /\ UNCHANGED sqsClient
             ELSE IF getSQSClientThrows
             THEN /\ SocketCatch(SendThrew(r, data, topic, now))
                  /\ UNCHANGED sqsClient
             ELSE /\ sqsClient' = getSQSClient
                  /\ req' = SendStarted(r, data, topic, now)
                  /\ connected' = connected
    /\ UNCHANGED <<env, pc, messages, idx, calls, qstate, qbody>>

SocketSendMessage(c) == SocketSendMessageOf(c, SocketInputs)

ForgedSocketSendMessage(c) == SocketSendMessageOf(c, ForgedSocketInputs)

\* ------------------------------------------------- POST /api/messages
\* The JSON bodies of the requests.
HttpInputs ==
    {[given |-> TRUE, props |-> {<<"text", "hello">>}],
     [given |-> TRUE, props |-> {<<"topic", "t1">>}],
     [given |-> TRUE, props |-> {<<"text", "">>, <<"topic", "t1">>}]}

\* Bodies with more than {text, topic}.
ForgedHttpInputs ==
    {[given |-> TRUE, props |-> {<<"text", "hello">>, <<"senderId", "s1">>,
                                 <<"timestamp", "T0">>}]}

\* A handler that validates nothing.
TextMissingNever(text) == FALSE

\* !text
TextMissing(text) == text \in {Undefined, ""}

\* catch (error) { res.status(500).json(...) }
HttpCatch(r) == [r EXCEPT !.status = 500, !.errors = @ + 1, !.state = "done"]

\* app.post('/api/messages', async (req, res) => ...) up to its await, for a
\* request with one of the bodies of inputs
HttpPostMessagesOf(inputs) ==
    /\ HandlersCanRun
    /\ req.state # "sending"
    /\ \E input \in inputs, now \in Now :
         LET r == NewReq("http", "none", input)
             text == Prop(input.props, "text")
             data == {p \in input.props : p[1] = "text"}
             topic == Prop(input.props, "topic")
         IN  IF TextMissing(text)
             THEN /\ req' = [r EXCEPT !.status = 400]
                  /\ UNCHANGED sqsClient
             ELSE IF getSQSClientThrows
             THEN /\ req' = HttpCatch(SendThrew(r, data, topic, now))
                  /\ UNCHANGED sqsClient
             ELSE /\ sqsClient' = getSQSClient
                  /\ req' = SendStarted(r, data, topic, now)
    /\ UNCHANGED <<env, pc, messages, idx, calls, qstate, qbody, connected>>

HttpPostMessages == HttpPostMessagesOf(HttpInputs)

ForgedHttpPostMessages == HttpPostMessagesOf(ForgedHttpInputs)

\* The places of the queue a message of the handlers can take: the queue
\* holds MaxQueued of their messages at a time.
FreeSlots == {m \in MsgIds : m <= MaxQueued /\ qstate[m] = "absent"}

\* client.send(command) returns: the message is in the queue, and the
\* handler runs to its end.
SendReturns ==
    /\ HandlersCanRun
    /\ req.state = "sending"
    /\ FreeSlots # {}
    /\ LET m == CHOOSE f \in FreeSlots : \A g \in FreeSlots : f <= g
       IN  /\ qstate' = [qstate EXCEPT ![m] = "visible"]
           /\ qbody' = [qbody EXCEPT ![m] = req.commands[Len(req.commands)].MessageBody]
    /\ req' = [req EXCEPT !.state = "done",
                          !.status = IF req.kind = "http" THEN 200 ELSE @]
    /\ UNCHANGED <<env, sqsClient, pc, messages, idx, calls, connected>>

\* client.send(command) rejects: the catch of the handler runs.
SendFails ==
    /\ HandlersCanRun
    /\ req.state = "sending"
    /\ IF req.kind = "socket"
       THEN SocketCatch(req)
       ELSE /\ req' = HttpCatch(req)
            /\ connected' = connected
    /\ UNCHANGED <<env, sqsClient, pc, messages, idx, calls, qstate, qbody>>

\* The poller, the clients and the handlers of one server; the queue holds
\* what the handlers have sent.
RelayInit ==
    /\ Init
    /\ env \in {requiredEnvVars, requiredEnvVars \ {"AWS_SQS_QUEUE_URL"}}

RelayNext ==
    \/ StartSQSPolling
    \/ PollerReceive
    \/ ReceiveReturns
    \/ ReceiveFails
    \/ TimerFires
    \/ HandleMessage
    \/ DeleteReturns
    \/ DeleteFails
    \/ BatchDone
    \/ VisibilityTimeout
    \/ \E c \in SocketIds : Connect(c)
    \/ \E c \in SocketIds : Disconnect(c)
    \/ \E c \in SocketIds : SocketSendMessage(c)
    \/ HttpPostMessages
    \/ SendReturns
    \/ SendFails

RelaySpec == RelayInit /\ [][RelayNext]_vars

\* The same server with clients that send more than {text, topic}.
ForgedNext ==
    \/ StartSQSPolling
    \/ PollerReceive
    \/ ReceiveReturns
    \/ ReceiveFails
    \/ TimerFires
    \/ HandleMessage
    \/ DeleteReturns
    \/ DeleteFails
    \/ BatchDone
    \/ VisibilityTimeout
    \/ \E c \in SocketIds : Connect(c)
    \/ \E c \in SocketIds : Disconnect(c)
    \/ \E c \in SocketIds : ForgedSocketSendMessage(c)
    \/ ForgedHttpPostMessages
    \/ SendReturns
    \/ SendFails

ForgedSpec == RelayInit /\ [][ForgedNext]_vars

\* ------------------------------------------- sendSQSMessage on its own
\* One call of sendSQSMessage with any payload, any topic or none, at any
\* clock reading, by a configured server.
SendInit ==
    /\ Init
    /\ env = requiredEnvVars

DirectSend ==
    /\ req.state = "idle"
    /\ \E data \in JsonObjects, topic \in TopicValues \cup {Undefined}, now \in TimeValues :
         req' = SendStarted(NewReq("direct", "none", [given |-> TRUE, props |-> data]),
                            data, topic, now)
    /\ sqsClient' = getSQSClient
    /\ UNCHANGED <<env, pc, messages, idx, calls, qstate, qbody, connected>>

SendSpec == SendInit /\ [][DirectSend]_vars

Next ==
    \/ StartSQSPolling
    \/ PollerReceive
    \/ ReceiveReturns
    \/ ReceiveFails
    \/ TimerFires
    \/ HandleMessage
    \/ DeleteReturns
    \/ DeleteFails
    \/ BatchDone
    \/ QueueSend
    \/ VisibilityTimeout

Spec == Init /\ [][Next]_vars

\* The event loop runs every continuation of the poller that is ready, the
\* timer fires, and every call to the queue service returns or fails.
PollerFairness ==
    /\ WF_vars(StartSQSPolling)
    /\ WF_vars(PollerReceive)
    /\ WF_vars(HandleMessage)
    /\ WF_vars(BatchDone)
    /\ WF_vars(TimerFires)
    /\ WF_vars(ReceiveReturns \/ ReceiveFails)
    /\ WF_vars(DeleteReturns \/ DeleteFails)

\* The queue service redelivers: a received message that was not deleted
\* becomes visible again, a message that stays visible is eventually part of
\* an answer to a receive, and io.emit does not throw for ever.
QueueFairness ==
    \A m \in MsgIds :
        /\ WF_vars(VisibilityTimeoutOf(m))
        /\ SF_vars(ReceiveReturns /\ \E i \in DOMAIN messages' : messages'[i].MessageId = m)
        /\ SF_vars(HandleMessage /\ messages[idx].MessageId = m /\ pc' = "await_delete")

\* The poller with every call of it eventually answered.
PollSpec == Spec /\ PollerFairness

\* The same with a queue service that keeps redelivering.
LiveSpec == Spec /\ PollerFairness /\ QueueFairness

\* ------------------------------------------------------------ properties
\* The texts of Bodies that are valid JSON (RFC 8259: null is a JSON value).
ValidJsonTexts == {BodyEnvelope, BodyNoTopic, BodyNull}

\* The positions of calls that hold an `op` for message i of the batch.
CallsOf(op, i) == {k \in DOMAIN calls : calls[k].op = op /\ calls[k].i = i}

Batch == DOMAIN messages

\* Message i of the batch has been dealt with: the for loop is past it.
Handled(i) == i \in Batch /\ idx > i

\* io.emit was called for message i and returned.
Published(i) == CallsOf("emit", i) # {} /\ CallsOf("emit_failed", i) = {}

\* C1: every received message whose body parses as JSON gets exactly one
\* io.emit per delivery: never more than one, and one once the for loop is past it.
C1_OnePublishPerParsedMessage ==
    \A i \in Batch :
        messages[i].Body \in ValidJsonTexts =>
            /\ Cardinality(CallsOf("emit", i)) <= 1
            /\ Handled(i) => Cardinality(CallsOf("emit", i)) = 1

\* C2: a message that parsed and was published has exactly one delete call, made
\* after the publish and with that message's own receipt handle, and it stays
\* one when the delete fails.
C2_PublishedThenOneDeleteOwnHandle ==
    /\ \A i \in Batch :
          Published(i) =>
              /\ Cardinality(CallsOf("delete", i)) = 1
              /\ \A k \in CallsOf("delete", i) :
                    /\ calls[k].handle = messages[i].ReceiptHandle
                    /\ \E j \in CallsOf("emit", i) : j < k
    /\ \A k \in DOMAIN calls :
          calls[k].op = "delete" =>
              /\ calls[k].i \in Batch
              /\ calls[k].handle = messages[calls[k].i].ReceiptHandle

C2_Witness ==
    \E i \in Batch :
        /\ i > 1
        /\ Published(i)
        /\ CallsOf("delete_failed", i) # {}
        /\ Handled(i)

\* C3: a message whose body is not JSON gets no io.emit and no delete call, is
\* still in the queue, and the for loop goes on past it.
C3_ParseFailureNoPublishNoDelete ==
    \A i \in Batch :
        messages[i].Body \notin ValidJsonTexts =>
            /\ CallsOf("emit", i) = {}
            /\ CallsOf("delete", i) = {}
            /\ qstate[messages[i].MessageId] # "absent"
            /\ qbody[messages[i].MessageId] = messages[i].Body
            /\ pc \in {"for", "await_delete", "loop"}
            /\ Handled(i) => Cardinality(CallsOf("error", i)) = 1

C3_Witness ==
    \E i \in Batch :
        /\ messages[i].Body = BodyNotJson
        /\ Handled(i)
        /\ i < Len(messages)
        /\ pc = "await_delete"

\* C4: every delete call in calls comes after an io.emit for the same message
\* of the batch, and a message is removed only after its delete call.
C4_DeleteOnlyAfterPublish ==
    \A k \in DOMAIN calls :
        /\ calls[k].op = "delete" =>
              \E j \in CallsOf("emit", calls[k].i) : j < k
        /\ calls[k].op = "deleted" =>
              \E j \in CallsOf("emit", calls[k].i) : j < k

C4_Witness ==
    \E i \in Batch :
        /\ CallsOf("deleted", i) # {}
        /\ qstate[messages[i].MessageId] = "absent"

\* The last receive of the poller was answered with no message.
ReceivedNone == Len(calls) >= 2 /\ calls[2].op = "received" /\ calls[2].i = 0

\* The poller calls receiveSQSMessages in this step.
ReceiveCalled == pc = "loop" /\ pc' # "loop"

\* C5: after a receive that returned no message the poller makes no io.emit, no
\* delete call and no sleep; the next thing it does is to call receive again.
C5_EmptyReceiveNoDeleteNoSleep ==
    [][ReceivedNone =>
         /\ calls = <<Did("receive", 0), Did("received", 0)>>
         /\ pc \in {"for", "loop"}
         /\ \/ calls' = calls /\ pc' \in {"for", "loop"}
            \/ ReceiveCalled /\ calls' = <<Did("receive", 0)>> /\ pc' = "await_receive"]_vars

C5_Witness == ReceivedNone /\ pc = "loop"

\* C6: whenever the poller calls receive and the receive before it had failed,
\* one sleep of BackoffMs was started after the failure and has ended.
C6_ReceiveErrorThenBackoff ==
    [][ReceiveCalled =>
         \A k \in DOMAIN calls :
             calls[k].op = "receive_failed" =>
                 /\ \E s \in k + 1..Len(calls) :
                       /\ calls[s].op = "sleep"
                       /\ calls[s].ms = BackoffMs
                       /\ \E w \in s + 1..Len(calls) : calls[w].op = "woke"
                 /\ Cardinality({s \in DOMAIN calls : calls[s].op = "sleep"}) = 1]_vars

C6_Witness ==
    /\ pc = "loop"
    /\ sqsClient = "client"
    /\ \E k \in DOMAIN calls : calls[k].op = "receive_failed"

PollerPositions == {"init", "loop", "await_receive", "for", "await_delete", "sleeping"}

\* C7: the poller is always at a position of its loop, and it is again and
\* again at the head of the loop and again and again past the receive call.
C7_PollerNeverStops ==
    /\ [](pc \in PollerPositions)
    /\ []<>(pc = "loop")
    /\ []<>(pc \in {"await_receive", "sleeping"})

C7_Witness ==
    /\ pc = "loop"
    /\ \E i \in Batch : CallsOf("delete_failed", i) # {}
    /\ \E i \in Batch : messages[i].Body = BodyNotJson /\ CallsOf("error", i) # {}

\* What message i of the batch is due, by its own body.
Deliverable(i) == messages[i].Body \in ValidJsonTexts \ {BodyNull}

\* C8: when the for loop is over, every message of the batch was dealt with on
\* its own: an io.emit exactly for the bodies that parse to a value, a delete
\* call exactly for the published ones, whatever happened to the others.
C8_BatchMessagesIndependent ==
    (pc \in {"loop", "sleeping"} /\ \E k \in DOMAIN calls : calls[k].op = "received") =>
        \A i \in Batch :
            /\ Handled(i)
            /\ Cardinality(CallsOf("emit", i)) = (IF Deliverable(i) THEN 1 ELSE 0)
            /\ Cardinality(CallsOf("delete", i)) = (IF Published(i) THEN 1 ELSE 0)

C8_Witness ==
    /\ pc = "loop"
    /\ Len(messages) = 2
    /\ CallsOf("delete_failed", 1) # {}
    /\ CallsOf("deleted", 2) # {}

\* C9: with the configuration complete, every message in the queue whose body
\* is valid JSON is eventually published.
C9_ValidJsonEventuallyPublished ==
    \A m \in MsgIds, b \in ValidJsonTexts :
        (missingVars = {} /\ qstate[m] # "absent" /\ qbody[m] = b)
            ~> (\E i \in Batch : messages[i].MessageId = m /\ Published(i))

\* The same for the bodies that parse to a value other than null.
DeliverableEventuallyPublished ==
    \A m \in MsgIds, b \in ValidJsonTexts \ {BodyNull} :
        (missingVars = {} /\ qstate[m] # "absent" /\ qbody[m] = b)
            ~> (\E i \in Batch : messages[i].MessageId = m /\ Published(i))

\* getSQSClient has thrown in the receive of this iteration.
ConfigErrorRaised ==
    /\ sqsClient = "null"
    /\ missingVars # {}
    /\ \E k \in DOMAIN calls : calls[k].op = "receive_failed"

\* C10: once getSQSClient has raised the configuration error, the poller does
\* not call receive again.
C10_ConfigErrorNotRetried == [][ConfigErrorRaised => ~ReceiveCalled]_vars

\* The positions of calls that hold an `op`, for any message.
AllCallsOf(op) == {k \in DOMAIN calls : calls[k].op = op}

\* What the body of message i of the batch parses to.
ParsedBody(i) == JSON_parse(messages[i].Body).value

\* C11: the messages of a batch are published in the order of the batch: the
\* emits of calls go up the batch, each emit is of the message at its place,
\* and the delete call of an earlier message comes before the emit of a later one.
C11_BatchOrderKept ==
    /\ \A k, l \in AllCallsOf("emit") :
          k < l => calls[k].i < calls[l].i
    /\ \A k \in AllCallsOf("emit") :
          /\ calls[k].i \in Batch
          /\ calls[k].body = ParsedBody(calls[k].i)
    /\ \A k \in AllCallsOf("delete"), l \in AllCallsOf("emit") :
          calls[k].i < calls[l].i => k < l

C11_Witness ==
    /\ Len(messages) = 2
    /\ messages[1].Body = BodyNoTopic
    /\ messages[2].Body = BodyEnvelope
    /\ CallsOf("delete", 1) # {}
    /\ CallsOf("emit", 2) # {}

\* C14: every envelope the poller emits has a topic, "general" when the parsed
\* body has none.
C14_PublishedEnvelopeHasTopic ==
    \A k \in AllCallsOf("emit") :
        /\ Has(calls[k].body.props, "topic")
        /\ ~Has(ParsedBody(calls[k].i).props, "topic") =>
               Get(calls[k].body.props, "topic") = "general"

\* C18: a sleep is started only right after a failed receive and its log line;
\* an iteration that got its batch never sleeps, and after a failure of parse,
\* emit or delete the for loop is at the next message.
C18_SleepOnlyAfterFailedReceive ==
    /\ \A s \in AllCallsOf("sleep") :
          /\ s >= 3
          /\ calls[s - 1].op = "error" /\ calls[s - 1].i = 0
          /\ calls[s - 2].op = "receive_failed"
    /\ pc = "sleeping" => calls[Len(calls)].op = "sleep"
    /\ AllCallsOf("received") # {} =>
          /\ AllCallsOf("sleep") = {}
          /\ pc \in {"for", "await_delete", "loop"}
          /\ \A i \in Batch :
                (CallsOf("error", i) # {} /\ pc # "loop") => idx > i

C18_Witness ==
    /\ pc = "for"
    /\ Len(messages) = 2
    /\ idx = 2
    /\ CallsOf("delete_failed", 1) # {} \/ CallsOf("emit_failed", 1) # {}

\* C19: the timestamp of every envelope the poller emits is the one of the
\* queue message body, and an envelope without one is emitted without one.
C19_TimestampUntouched ==
    \A k \in AllCallsOf("emit") :
        LET sent == ParsedBody(calls[k].i).props
            got == calls[k].body.props
        IN  /\ Has(got, "timestamp") <=> Has(sent, "timestamp")
            /\ Has(got, "timestamp") => Get(got, "timestamp") = Get(sent, "timestamp")

C19_Witness ==
    \E k \in AllCallsOf("emit") :
        /\ Has(calls[k].body.props, "timestamp")
        /\ Get(calls[k].body.props, "timestamp") = "T0"
        /\ CallsOf("deleted", calls[k].i) # {}

\* ------------------------------------------------------------ handlers
\* C12: a 'send-message' event with a payload makes one call of
\* sendSQSMessage, with the text of the payload and senderId the id of the
\* socket, and no step of a handler emits; whatever is emitted is the parsed
\* body of a message the poller received from the queue.
C12_SocketSendQueuedNotPublished ==
    /\ [](\A k \in AllCallsOf("emit") : calls[k].body = ParsedBody(calls[k].i))
    /\ [][(req' # req /\ req'.kind = "socket" /\ req'.input.given) =>
            /\ Len(req'.sendCalls) = 1
            /\ req'.sendCalls[1].data =
                  {<<"text", Prop(req'.input.props, "text")>>, <<"senderId", req'.by>>}
            /\ req'.sendCalls[1].topic = Prop(req'.input.props, "topic")
            /\ calls' = calls]_vars

C12_Witness ==
    /\ req.kind = "socket"
    /\ req.state = "done"
    /\ req.errors = 0
    /\ \E k \in AllCallsOf("emit") :
          /\ Has(calls[k].body.props, "senderId")
          /\ Get(calls[k].body.props, "senderId") = req.by
          /\ req.by \in calls[k].to

\* C13: the body sendSQSMessage writes has the topic of the call, "general"
\* when the call gave none, and the clock reading of the call as timestamp,
\* whatever the payload carries under these names; the Topic attribute is the
\* topic of the body, and the other fields of the payload are kept.
C13_SendSetsTopicAndTimestamp ==
    \A k \in DOMAIN req.commands :
        LET call == req.sendCalls[k]
            parsed == JSON_parse(req.commands[k].MessageBody)
            body == parsed.value.props
        IN  /\ parsed.ok
            /\ Has(body, "topic")
            /\ Has(body, "timestamp")
            /\ Get(body, "topic") = IF call.topic = Undefined THEN "general" ELSE call.topic
            /\ Get(body, "timestamp") = call.now
            /\ req.commands[k].Topic = Get(body, "topic")
            /\ \A p \in call.data : p[1] \notin {"topic", "timestamp"} => p \in body

C13_Witness ==
    /\ req.commands # <<>>
    /\ req.sendCalls[1].topic = Undefined
    /\ Has(req.sendCalls[1].data, "topic")
    /\ Get(req.sendCalls[1].data, "topic") # "general"
    /\ Has(req.sendCalls[1].data, "timestamp")
    /\ Get(req.sendCalls[1].data, "timestamp") # req.sendCalls[1].now

\* The answer to a POST /api/messages whose text counts as given when
\* hasText holds: one call of sendSQSMessage and 200, or 500 when it failed;
\* otherwise 400 and no call.
HttpAnswered(hasText) ==
    req.kind = "http" =>
        IF hasText
        THEN /\ Len(req.sendCalls) = 1
             /\ req.sendCalls[1].data = {<<"text", Get(req.input.props, "text")>>}
             /\ req.state = "done" => req.status = IF req.errors > 0 THEN 500 ELSE 200
        ELSE /\ req.sendCalls = <<>>
             /\ req.state = "done"
             /\ req.status = 400

\* C15: a POST without a text field is answered 400 with no call of
\* sendSQSMessage; a POST with a text field makes exactly one call, answered
\* 500 when the send fails.
C15_TextFieldThenOneSend == HttpAnswered(Has(req.input.props, "text"))

\* C15, amended: the same with "a text field" read as a text that is not
\* empty; a POST with an empty text is answered 400 like one without.
C15_NonEmptyTextThenOneSend ==
    HttpAnswered(Has(req.input.props, "text") /\ Get(req.input.props, "text") # "")

C15_Witness ==
    /\ req.kind = "http"
    /\ req.status = 500
    /\ req.commands # <<>>

\* C16: an emit goes to exactly the sockets connected when it is made, and
\* the sockets of an emit already made never change: a socket that connects
\* later gets nothing of it.
C16_PublishToConnectedOnly ==
    [][\A k \in DOMAIN calls' :
          calls'[k].op = "emit" =>
              IF k <= Len(calls)
              THEN calls'[k] = calls[k]
              ELSE calls'[k].to = connected /\ connected' = connected]_vars

C16_Witness ==
    \E k \in AllCallsOf("emit") :
        /\ calls[k].to = {"s1"}
        /\ connected = {"s1", "s2"}

\* The poller is inside a receive call, a delete call or the backoff sleep.
PollerWaiting == pc \in {"await_receive", "await_delete", "sleeping"}

\* C17: while the poller waits in a receive call, a delete call or the
\* backoff sleep, a socket can connect and disconnect, a 'send-message' event
\* and a POST can be handled, and a send that was started can return or fail.
C17_HandlersRunWhilePollerWaits ==
    PollerWaiting =>
        /\ \A c \in SocketIds \ connected : ENABLED Connect(c)
        /\ \A c \in connected : ENABLED Disconnect(c)
        /\ req.state # "sending" =>
              /\ \A c \in connected : ENABLED SocketSendMessage(c)
              /\ ENABLED HttpPostMessages
        /\ req.state = "sending" =>
              /\ ENABLED SendFails
              /\ FreeSlots # {} => ENABLED SendReturns

C17_Witness ==
    /\ pc = "sleeping"
    /\ req.kind = "http"
    /\ req.state = "sending"
    /\ connected = SocketIds

\* C20: a step in which the 'send-message' handler catches a failure changes
\* the request in hand only: nothing is emitted, the connected sockets stay,
\* and the poller and the queue are as before.
C20_SocketFailureAbsorbed ==
    [][(req' # req /\ req'.kind = "socket" /\ req'.errors > 0) =>
          /\ calls' = calls
          /\ connected' = connected
          /\ <<pc, messages, idx, env, sqsClient, qstate, qbody>>' =
                <<pc, messages, idx, env, sqsClient, qstate, qbody>>]_vars

C20_Witness ==
    /\ req.kind = "socket"
    /\ req.errors = 1
    /\ req.commands # <<>>
    /\ req.by \in connected
    /\ pc = "await_delete"

\* The three failures of the 'send-message' handler.
C20_WitnessNoPayload ==
    req.kind = "socket" /\ req.errors = 1 /\ ~req.input.given /\ req.by \in connected

C20_WitnessNoConfig ==
    /\ req.kind = "socket"
    /\ req.errors = 1
    /\ req.sendCalls # <<>>
    /\ req.commands = <<>>
    /\ req.by \in connected

\* ------------------------------------------------------ single consumer
\* The receive calls of this iteration that have no answer yet.
ReceivesInFlight ==
    IF Cardinality(AllCallsOf("receive")) >
          Cardinality(AllCallsOf("received") \cup AllCallsOf("receive_failed"))
    THEN {0} ELSE {}

\* The messages of the batch whose delete call has no answer yet.
DeletesInFlight ==
    {i \in Batch : Cardinality(CallsOf("delete", i)) >
                      Cardinality(CallsOf("deleted", i) \cup CallsOf("delete_failed", i))}

\* The handling of message i is over: its delete call returned or failed, or
\* the inner catch ended it before a delete call.
Settled(i) ==
    CallsOf("deleted", i) \cup CallsOf("delete_failed", i) \cup CallsOf("error", i) # {}

\* C21: the poller is started once; at most one of its calls to the queue,
\* a receive or a delete, is without answer at any time, and the poller is
\* waiting for exactly that call; it calls receive only when no call is
\* without answer and every message of the batch before was settled.
C21_SingleConsumer ==
    /\ [][pc # "init" => pc' # "init"]_vars
    /\ [](/\ Cardinality(AllCallsOf("receive")) <= 1
          /\ \A i \in Batch : Cardinality(CallsOf("delete", i)) <= 1
          /\ Cardinality(ReceivesInFlight) + Cardinality(DeletesInFlight) <= 1
          /\ ReceivesInFlight # {} <=> pc = "await_receive"
          /\ DeletesInFlight # {} <=> pc = "await_delete")
    /\ [][ReceiveCalled =>
            /\ ReceivesInFlight = {}
            /\ DeletesInFlight = {}
            /\ \A i \in Batch : Settled(i)]_vars

C21_Witness ==
    /\ pc = "await_delete"
    /\ Len(messages) = 2
    /\ DeletesInFlight = {2}
    /\ CallsOf("deleted", 1) # {}

\* ------------------------------------------------------ queue client
\* A call of receiveSQSMessages or sendSQSMessage is made in this step, or a
\* DeleteMessageCommand is sent in it.
ClientCalled ==
    \/ ReceiveCalled
    \/ req' # req /\ req.state # "sending" /\ req'.sendCalls # <<>>
    \/ \E k \in DOMAIN calls' : k > Len(calls) /\ calls'[k].op = "delete"

\* The call of this step ended in the throw of getSQSClient.
ClientCallThrew ==
    \/ ReceiveCalled /\ \E k \in DOMAIN calls' : calls'[k].op = "receive_failed"
    \/ ~ReceiveCalled /\ req' # req /\ req'.errors > 0 /\ req'.commands = <<>>

\* C22: a client that was built is never replaced or unset, so one client is
\* built at most and every later call has it; a call made while there is none
\* builds one when the configuration is complete, and otherwise throws and
\* leaves none, whoever makes the call.
C22_ClientIsLazySingleton ==
    /\ [][sqsClient # "null" => sqsClient' = sqsClient]_vars
    /\ [][ClientCalled =>
            IF sqsClient = "null" /\ missingVars # {}
            THEN sqsClient' = "null" /\ ClientCallThrew
            ELSE /\ sqsClient' = IF sqsClient = "null" THEN NewSQSClient ELSE sqsClient
                 /\ ~ClientCallThrew]_vars

C22_Witness ==
    /\ sqsClient = NewSQSClient
    /\ req.kind = "socket"
    /\ req.commands # <<>>
    /\ AllCallsOf("deleted") # {}

\* A second call validating again after a first one that threw.
C22_WitnessUnset ==
    /\ sqsClient = "null"
    /\ req.kind = "http"
    /\ req.errors = 1
    /\ AllCallsOf("receive_failed") # {}

\* ---------------------------------------------------------- senderId
\* The fields of the body the server writes for the request in hand: the
\* text and the topic of the payload, the clock of the call, and for a socket
\* event the id of the socket.
ExpectedBody(call) ==
    {p \in req.input.props : p[1] = "text"}
        \cup {<<"topic", IF Has(req.input.props, "topic")
                         THEN Get(req.input.props, "topic") ELSE "general">>}
        \cup {<<"timestamp", call.now>>}
        \cup {p \in {<<"senderId", req.by>>} : req.kind = "socket"}

\* C23: the body enqueued for a socket event or a POST is a function of the
\* text and topic of the payload, the clock and, for a socket event, the id of
\* the socket: a socket body has senderId the id of its socket, a POST body has
\* no senderId, and no other field of the payload is in either.
C23_SenderIdNotForgeable ==
    req.kind \in {"socket", "http"} =>
        \A k \in DOMAIN req.commands :
            LET parsed == JSON_parse(req.commands[k].MessageBody)
            IN  /\ parsed.ok
                /\ parsed.value.props = ExpectedBody(req.sendCalls[k])
                /\ req.kind = "socket" => Get(parsed.value.props, "senderId") = req.by
                /\ req.kind = "http" => ~Has(parsed.value.props, "senderId")

C23_Witness ==
    /\ req.kind = "socket"
    /\ req.by = "s1"
    /\ Has(req.input.props, "senderId")
    /\ Get(req.input.props, "senderId") = "s2"
    /\ Has(req.input.props, "timestamp")
    /\ req.state = "done"
    /\ req.errors = 0
    /\ \E m \in MsgIds :
          qstate[m] # "absent" /\ qbody[m] = req.commands[1].MessageBody

\* A POST with a senderId in its body, enqueued.
C23_WitnessHttp ==
    /\ req.kind = "http"
    /\ Has(req.input.props, "senderId")
    /\ req.status = 200
====
